---- MODULE Spec2Model ----
(***************************************************************************)
(* Model of clap-show (src/src/lib.rs): rendering the help of a clap       *)
(* command tree as Markdown.                                               *)
(*                                                                         *)
(* A Rust String is a TLA+ string; write!/writeln!/println! are string     *)
(* concatenations.  An Option<T> is the empty tuple (None) or a one-tuple  *)
(* (Some).  The clap::Command tree is held flat: command.node[i] is the    *)
(* i-th command, command.parent[i] its parent (0 for the root), and the    *)
(* subcommands of a command are its children in increasing index, which is *)
(* the order clap's get_subcommands() iterates them (declaration order).   *)
(***************************************************************************)
EXTENDS Integers, Sequences, FiniteSets, TLC

VARIABLES
    command,   \* the clap::Command tree handed to the library
    calls,     \* the calls made so far, each with what it returned
    stdout     \* everything println! has written to standard output

vars == <<command, calls, stdout>>

\* ------------------------------------------------------------------ bounds
MaxNodes == 3      \* commands in a tree
MaxCalls == 2      \* library calls in one run
MaxOrderNodes == 4 \* commands in a tree of the traversal-order inputs

\* ------------------------------------------------------------- Option<T>
None == <<>>
Some(v) == <<v>>
IsSome(o) == o # <<>>
IsNone(o) == o = <<>>
Unwrap(o) == o[1]

\* ------------------------------------------------------- string helpers
\* Three characters of the Markdown output are written with ASCII stand-ins:
\* the backquote that delimits a code span (the lexer rejects it inside a
\* string literal), and the em dash and the downwards arrow of the format
\* strings (TLC's strings are only reliable for ASCII).  No input string
\* contains a stand-in.
BT == "'"
EmDash == "~"
Arrow == "^"

Max(a, b) == IF a > b THEN a ELSE b

\* [String]::join(sep)
RECURSIVE Join(_, _)
Join(strs, sep) ==
    IF Len(strs) = 0 THEN ""
    ELSE IF Len(strs) = 1 THEN strs[1]
    ELSE strs[1] \o sep \o Join(Tail(strs), sep)

\* format!("{:width$}", s): left-aligned, padded with spaces up to width;
\* a longer string is not truncated.
RECURSIVE Pad(_, _)
Pad(s, width) == IF Len(s) >= width THEN s ELSE Pad(s \o " ", width)

\* char::to_ascii_uppercase over the letters the inputs use
UpperChar(ch) ==
    CASE ch = "a" -> "A" [] ch = "b" -> "B" [] ch = "c" -> "C" [] ch = "d" -> "D"
      [] ch = "e" -> "E" [] ch = "f" -> "F" [] ch = "g" -> "G" [] ch = "i" -> "I"
      [] ch = "l" -> "L" [] ch = "n" -> "N" [] ch = "o" -> "O" [] ch = "r" -> "R"
      [] ch = "s" -> "S" [] ch = "t" -> "T" [] ch = "u" -> "U" [] ch = "v" -> "V"
      [] OTHER -> ch

\* str::to_ascii_uppercase
RECURSIVE ToAsciiUppercase(_)
ToAsciiUppercase(s) ==
    IF Len(s) = 0 THEN ""
    ELSE UpperChar(SubSeq(s, 1, 1)) \o ToAsciiUppercase(SubSeq(s, 2, Len(s)))

\* str::replace(from, to): every non-overlapping occurrence, left to right
RECURSIVE Replace(_, _, _)
Replace(s, from, to) ==
    IF Len(s) < Len(from) \/ Len(from) = 0 THEN s
    ELSE IF SubSeq(s, 1, Len(from)) = from
         THEN to \o Replace(SubSeq(s, Len(from) + 1, Len(s)), from, to)
         ELSE SubSeq(s, 1, 1) \o Replace(SubSeq(s, 2, Len(s)), from, to)

\* ------------------------------------------------- clap::Command accessors
Node(c) == command.node[c]

\* Command::get_subcommands(): the children of c in declaration order
RECURSIVE SubcommandsFrom(_, _)
SubcommandsFrom(c, i) ==
    IF i > Len(command.parent) THEN <<>>
    ELSE IF command.parent[i] = c THEN <<i>> \o SubcommandsFrom(c, i + 1)
    ELSE SubcommandsFrom(c, i + 1)

\* a faulty iteration: the children in reverse declaration order
get_subcommands_reversed(c) ==
    LET subs == SubcommandsFrom(c, 1)
    IN  [i \in 1..Len(subs) |-> subs[Len(subs) + 1 - i]]

get_subcommands(c) == SubcommandsFrom(c, 1)

\* Arg::is_positional(): an argument with neither a short nor a long flag
is_positional(a) == IsNone(a.short) /\ IsNone(a.long)

\* Command::get_arguments() and Command::get_positionals()
get_arguments(c) == Node(c).args

get_positionals(c) == SelectSeq(Node(c).args, is_positional)

\* ------------------------------------- build_table_of_contents_markdown
\* command_path.push(command.get_name().to_owned())
PushName(parent_command_path, c) == Append(parent_command_path, Node(c).name)

\* a faulty guard: no command is ever skipped
is_hide_set_never(c) == FALSE

\* the hidden-command guard of the walkers
is_hide_set(c) == Node(c).hide

\* the line written for one command
TocEntry(command_path) ==
    "* [" \o BT \o Join(command_path, " ") \o BT \o Arrow \o "](#"
        \o Join(command_path, "-") \o ")\n"

\* a faulty hand-down: the parent's path instead of the command's own
TocChildPath_parent(command_path) == SubSeq(command_path, 1, Len(command_path) - 1)

\* the path handed down to the subcommands
TocChildPath(command_path) == command_path

RECURSIVE build_table_of_contents_markdown(_, _, _, _)
RECURSIVE TocSubcommands(_, _, _, _)
build_table_of_contents_markdown(buffer, parent_command_path, c, depth) ==
    IF is_hide_set(c) THEN buffer
    ELSE LET command_path == PushName(parent_command_path, c)
         IN  TocSubcommands(buffer \o TocEntry(command_path),
                            TocChildPath(command_path), get_subcommands(c), depth + 1)

\* the for loop over command.get_subcommands()
TocSubcommands(buffer, command_path, subs, depth) ==
    IF subs = <<>> THEN buffer
    ELSE TocSubcommands(
             build_table_of_contents_markdown(buffer, command_path, Head(subs), depth),
             command_path, Tail(subs), depth)

\* ------------------------------------------------------------------ HlpArg
\* the value an argument that takes values is shown with
ValueOf(a) ==
    IF IsSome(a.value_names) THEN Join(Unwrap(a.value_names), "|")
    ELSE ToAsciiUppercase(a.id)

\* HlpArg::new
HlpArg_new(a) ==
    [short       |-> IF IsSome(a.short) THEN Unwrap(a.short) ELSE " ",
     long        |-> IF IsSome(a.long) THEN Unwrap(a.long) ELSE "",
     value       |-> IF a.takes_values THEN ValueOf(a) ELSE "",
     description |-> IF IsSome(a.help) THEN Unwrap(a.help) ELSE ""]

\* the value placeholder HlpArg::print writes
PrintValue(arg) == "<" \o arg.value \o ">  "

\* HlpArg::print: the line it sends to println!
HlpArg_print(arg, length) ==
    (IF arg.short = " " THEN "      " ELSE "  -" \o arg.short \o ", ")
        \o "--" \o Pad(arg.long, length + 2)
        \o PrintValue(arg)
        \o arg.description
        \o "\n"

\* ------------------------------------------------------------------ HlpCmd
\* the description HlpCmd::print shows
ShownAbout(hc) == hc.short_about

\* HlpCmd::new
HlpCmd_new(c) ==
    [name        |-> Node(c).name,
     long_flag   |-> IF IsSome(Node(c).long_flag) THEN Unwrap(Node(c).long_flag) ELSE "",
     short_flag  |-> IF IsSome(Node(c).short_flag) THEN Unwrap(Node(c).short_flag) ELSE "",
     long_about  |-> IF IsSome(Node(c).long_about) THEN Unwrap(Node(c).long_about) ELSE "",
     short_about |-> IF IsSome(Node(c).about) THEN Unwrap(Node(c).about) ELSE "",
     length      |-> 0,
     options     |-> <<>>,
     commands    |-> <<>>]

\* HlpCmd::max_len
max_len(hc, i) == IF i > hc.length THEN [hc EXCEPT !.length = i] ELSE hc

\* HlpCmd::add_arg
add_arg(hc, arg) == max_len([hc EXCEPT !.options = Append(@, arg)], Len(arg.long))

\* HlpCmd::add_cmd
add_cmd(hc, cmd) == [hc EXCEPT !.commands = Append(@, cmd)]

\* the width of one row of the Commands table
RowWidth(cmd) ==
    (IF Len(cmd.name) = 0 THEN 0 ELSE Len(cmd.name) + 2)
        + (IF Len(cmd.short_flag) = 0 THEN 0 ELSE Len(cmd.short_flag) + 3)
        + (IF Len(cmd.long_flag) = 0 THEN 0 ELSE Len(cmd.long_flag) + 3)

RECURSIVE CommandsWidth(_, _)
CommandsWidth(cmds, width) ==
    IF cmds = <<>> THEN width
    ELSE CommandsWidth(Tail(cmds), Max(width, RowWidth(Head(cmds))))

\* one row of the Commands table
CommandRow(cmd, width) ==
    Pad("  " \o (IF cmd.name = "" THEN "" ELSE cmd.name \o ", ")
             \o (IF cmd.short_flag = "" THEN "" ELSE "-" \o cmd.short_flag \o ", ")
             \o (IF cmd.long_flag = "" THEN "" ELSE "--" \o cmd.long_flag),
        width)
        \o " " \o cmd.short_about \o "\n"

RECURSIVE CommandRows(_, _)
CommandRows(cmds, width) ==
    IF cmds = <<>> THEN ""
    ELSE CommandRow(Head(cmds), width) \o CommandRows(Tail(cmds), width)

\* HlpCmd::print_commands: what it sends to println!
HlpCmd_print_commands(hc) ==
    IF hc.commands = <<>> THEN ""
    ELSE LET width == CommandsWidth(hc.commands, 0) + 2
         IN  "Commands\n" \o CommandRows(hc.commands, width) \o "\n" \o "\n\n"

RECURSIVE PrintOptions(_, _)
PrintOptions(options, length) ==
    IF options = <<>> THEN ""
    ELSE HlpArg_print(Head(options), length) \o PrintOptions(Tail(options), length)

\* HlpCmd::print: what it sends to println!
HlpCmd_print(hc) ==
    ShownAbout(hc) \o "\n"
        \o "\n\n"
        \o HlpCmd_print_commands(hc)
        \o (IF hc.options # <<>>
            THEN "Options\n" \o PrintOptions(hc.options, hc.length) \o "\n\n"
            ELSE "")

\* --------------------------------------------------------------- build_cmd
\* {:#?} of an Option<&str>
DebugOptStr(o) ==
    IF IsSome(o) THEN "Some(\n    \"" \o Unwrap(o) \o "\",\n)" ELSE "None"

\* {:#?} of an Option<&StyledStr>
DebugOptStyled(o) ==
    IF IsSome(o) THEN "Some(\n    StyledStr(\n        \"" \o Unwrap(o) \o "\",\n    ),\n)"
    ELSE "None"

\* the first loop of build_cmd: one debug line per positional argument
RECURSIVE PrintPositionals(_)
PrintPositionals(args) ==
    IF args = <<>> THEN ""
    ELSE "-" \o DebugOptStr(Head(args).long) \o "\t --" \o DebugOptStr(Head(args).long)
             \o "\t Short: " \o DebugOptStyled(Head(args).help) \o "\n"
             \o PrintPositionals(Tail(args))

\* the subcommands build_cmd summarises for their parent
SummarisedSubcommands(c) == get_subcommands(c)

\* the arguments build_cmd lists under Options
ListedArguments(c) == get_arguments(c)

RECURSIVE AddCmds(_, _)
AddCmds(hc, subs) ==
    IF subs = <<>> THEN hc
    ELSE AddCmds(add_cmd(hc, HlpCmd_new(Head(subs))), Tail(subs))

RECURSIVE AddArgs(_, _)
AddArgs(hc, args) ==
    IF args = <<>> THEN hc
    ELSE AddArgs(add_arg(hc, HlpArg_new(Head(args))), Tail(args))

\* build_cmd: the HlpCmd it returns and what it printed on the way
build_cmd(c) ==
    LET hc == AddArgs(AddCmds(HlpCmd_new(c), SummarisedSubcommands(c)),
                      ListedArguments(c))
    IN  [hc  |-> hc,
         out |-> PrintPositionals(get_positionals(c)) \o HlpCmd_print(hc)]

\* ----------------------------------------------------- write_help_markdown
\* the document title and the introduction
TitleName(c) ==
    IF IsSome(Node(c).display_name) THEN Unwrap(Node(c).display_name)
    ELSE BT \o Node(c).name \o BT

Preamble(c) ==
    "# Command-Line Help for " \o TitleName(c) \o "\n\n"
        \o "This document contains the help content for the " \o BT \o Node(c).name
        \o BT \o " command-line program.\n\n"
        \o "**Command Overview:**\n\n"

\* write_help_markdown(buffer, command): the buffer afterwards and what the
\* call printed.  The sections of the commands are built by build_cmd, whose
\* result is dropped; build_command_markdown is not called.
write_help_markdown(buffer, c) ==
    [buffer |-> build_table_of_contents_markdown(buffer \o Preamble(c), <<>>, c, 0)
                    \o "\n",
     out    |-> build_cmd(c).out]

\* ------------------------------------------------------ write_arg_markdown
\* the value name write_arg_markdown shows: the first declared one
ValueName(a) ==
    IF IsSome(a.value_names) THEN Unwrap(a.value_names)[1]
    ELSE ToAsciiUppercase(a.id)

\* the value placeholder write_arg_markdown writes
MdValue(a) == "<" \o ValueName(a) \o ">"

\* the flags of the list item, by which of short and long the argument has
ArgFlags(a) ==
    IF IsSome(a.short) /\ IsSome(a.long) THEN
        IF a.takes_values
        THEN BT \o "-" \o Unwrap(a.short) \o BT \o ", " \o BT \o "--" \o Unwrap(a.long)
                 \o " " \o MdValue(a) \o BT
        ELSE BT \o "-" \o Unwrap(a.short) \o BT \o ", " \o BT \o "--" \o Unwrap(a.long)
                 \o BT
    ELSE IF IsSome(a.short) THEN
        IF a.takes_values
        THEN BT \o "-" \o Unwrap(a.short) \o " " \o MdValue(a) \o BT
        ELSE BT \o "-" \o Unwrap(a.short) \o BT
    ELSE IF IsSome(a.long) THEN
        IF a.takes_values
        THEN BT \o "--" \o Unwrap(a.long) \o " " \o MdValue(a) \o BT
        ELSE BT \o "--" \o Unwrap(a.long) \o BT
    ELSE BT \o MdValue(a) \o BT

RECURSIVE QuoteAll(_)
QuoteAll(values) ==
    IF values = <<>> THEN <<>>
    ELSE <<BT \o Head(values) \o BT>> \o QuoteAll(Tail(values))

\* the "Default value(s)" line
ArgDefaults(a) ==
    IF a.default_values = <<>> THEN ""
    ELSE IF Len(a.default_values) > 1
         THEN "\n  Default values: " \o Join(QuoteAll(a.default_values), ", ") \o "\n"
         ELSE "\n  Default value: " \o Join(QuoteAll(a.default_values), ", ") \o "\n"

PvShown(pv) == ~pv.hide

RECURSIVE PvItems(_)
PvItems(pvs) ==
    IF pvs = <<>> THEN ""
    ELSE (IF IsSome(Head(pvs).help)
          THEN "  - " \o BT \o Head(pvs).name \o BT \o ":\n    " \o Unwrap(Head(pvs).help)
                   \o "\n"
          ELSE "  - " \o BT \o Head(pvs).name \o BT \o "\n")
             \o PvItems(Tail(pvs))

RECURSIVE PvNames(_)
PvNames(pvs) ==
    IF pvs = <<>> THEN <<>>
    ELSE <<BT \o Head(pvs).name \o BT>> \o PvNames(Tail(pvs))

\* the "Possible values" block
ArgPossibleValues(a) ==
    LET possible_values == SelectSeq(a.possible_values, PvShown)
        any_have_help == \E i \in 1..Len(possible_values) : IsSome(possible_values[i].help)
    IN  IF possible_values = <<>> THEN ""
        ELSE IF any_have_help
             THEN "\n  Possible values:\n" \o PvItems(possible_values) \o "\n"
             ELSE "\n  Possible values: " \o Join(PvNames(possible_values), ", ") \o "\n\n"

\* write_arg_markdown(buffer, arg): the buffer afterwards
write_arg_markdown(buffer, a) ==
    buffer \o "* " \o ArgFlags(a)
        \o (IF IsSome(a.help) THEN " " \o EmDash \o " " \o Unwrap(a.help) \o "\n" ELSE "\n")
        \o ArgDefaults(a)
        \o ArgPossibleValues(a)

RECURSIVE WriteArgs(_, _)
WriteArgs(buffer, args) ==
    IF args = <<>> THEN buffer
    ELSE WriteArgs(write_arg_markdown(buffer, Head(args)), Tail(args))

\* -------------------------------------------------- build_command_markdown
\* Command::render_usage() is clap's; only its "Usage: " prefix and the
\* command's name matter to the code that consumes it.
render_usage(c) == "Usage: " \o Node(c).name

\* the description paragraph of a section
MdAbout(c) ==
    IF IsSome(Node(c).long_about) THEN Unwrap(Node(c).long_about) \o "\n\n"
    ELSE IF IsSome(Node(c).about) THEN Unwrap(Node(c).about) \o "\n\n"
    ELSE ""

\* the two assertions on before-help and after-help
MdAsserts(c) == IsNone(Node(c).before_help) /\ IsNone(Node(c).after_help)

MdUsage(parent_command_path, c) ==
    "**Usage:** " \o BT
        \o (IF parent_command_path = <<>> THEN "" ELSE Join(parent_command_path, " ") \o " ")
        \o Replace(render_usage(c), "Usage: ", "")
        \o BT \o "\n\n"

RECURSIVE MdSubcommandItems(_)
MdSubcommandItems(subs) ==
    IF subs = <<>> THEN ""
    ELSE (IF is_hide_set(Head(subs)) THEN ""
          ELSE "* " \o BT \o Node(Head(subs)).name \o BT \o " " \o EmDash \o " "
                   \o (IF IsSome(Node(Head(subs)).about) THEN Unwrap(Node(Head(subs)).about)
                       ELSE "")
                   \o "\n")
             \o MdSubcommandItems(Tail(subs))

MdSubcommands(c) ==
    IF get_subcommands(c) # <<>>
    THEN "###### **Subcommands:**\n\n" \o MdSubcommandItems(get_subcommands(c)) \o "\n"
    ELSE ""

MdArguments(c) ==
    IF get_positionals(c) # <<>>
    THEN WriteArgs("###### **Arguments:**\n\n", get_positionals(c)) \o "\n"
    ELSE ""

NotPositional(a) == ~is_positional(a)

MdOptions(c) ==
    LET non_pos == SelectSeq(get_arguments(c), NotPositional)
    IN  IF non_pos # <<>>
        THEN WriteArgs("###### **Options:**\n\n", non_pos) \o "\n"
        ELSE ""

\* build_command_markdown(buffer, parent_command_path, command, depth): the
\* buffer afterwards, and whether one of the assertions panicked on the way
\* (nothing is written after a panic).
RECURSIVE build_command_markdown(_, _, _, _)
RECURSIVE MdRecurse(_, _, _, _)
build_command_markdown(buffer, parent_command_path, c, depth) ==
    IF is_hide_set(c) THEN [buffer |-> buffer, panicked |-> FALSE]
    ELSE LET command_path == PushName(parent_command_path, c)
             heading == buffer \o "## " \o BT \o Join(command_path, " ") \o BT \o "\n\n"
                            \o MdAbout(c)
         IN  IF ~MdAsserts(c) THEN [buffer |-> heading, panicked |-> TRUE]
             ELSE MdRecurse(heading \o MdUsage(parent_command_path, c)
                                \o MdSubcommands(c) \o MdArguments(c) \o MdOptions(c)
                                \o "\n\n",
                            command_path, get_subcommands(c), depth + 1)

MdRecurse(buffer, command_path, subs, depth) ==
    IF subs = <<>> THEN [buffer |-> buffer, panicked |-> FALSE]
    ELSE LET r == build_command_markdown(buffer, command_path, Head(subs), depth)
         IN  IF r.panicked THEN r
             ELSE MdRecurse(r.buffer, command_path, Tail(subs), depth)

\* -------------------------------------------------------------- the inputs
RootName == "root"
SubNames == {"A", "B"}

DefaultCmd(name) ==
    [name |-> name, display_name |-> None, about |-> None, long_about |-> None,
     long_flag |-> None, short_flag |-> None, before_help |-> None,
     after_help |-> None, hide |-> FALSE, args |-> <<>>]

DefaultArg(id) ==
    [id |-> id, short |-> None, long |-> None, takes_values |-> TRUE,
     value_names |-> None, help |-> None, hide |-> FALSE, required |-> FALSE,
     multiple |-> FALSE, default_values |-> <<>>, possible_values |-> <<>>]

\* the parent vectors of the trees of n commands: command 1 is the root
Parents(n) == {p \in [1..n -> 0..(n - 1)] : p[1] = 0 /\ \A i \in 2..n : p[i] \in 1..(i - 1)}

\* Trees of up to MaxNodes commands: the shape, the names of the subcommands
\* and the hidden flags vary.
TreesOf(n) ==
    {[parent |-> p,
      node   |-> [i \in 1..n |-> [DefaultCmd(names[i]) EXCEPT !.hide = hide[i]]]]
        : p \in Parents(n),
          names \in {f \in [1..n -> SubNames \cup {RootName}] :
                        f[1] = RootName /\ \A i \in 2..n : f[i] \in SubNames},
          hide \in [1..n -> BOOLEAN]}

Trees == UNION {TreesOf(n) : n \in 1..MaxNodes}

\* the arguments of the single-command inputs
ArgTarget  == [DefaultArg("target") EXCEPT !.required = TRUE, !.help = Some("the target")]
ArgVerbose == [DefaultArg("verbose") EXCEPT !.short = Some("v"), !.long = Some("verbose"),
                                            !.takes_values = FALSE, !.help = Some("chatty")]
ArgSecret  == [DefaultArg("secret") EXCEPT !.long = Some("secret"), !.hide = TRUE]
ArgOutput  == [DefaultArg("output") EXCEPT !.short = Some("o"), !.long = Some("output"),
                                           !.value_names = Some(<<"FILE">>)]
CmdArgs == {ArgTarget, ArgVerbose, ArgSecret, ArgOutput}

ArgLists ==
    {<<>>} \cup {<<a>> : a \in CmdArgs}
           \cup {<<x[1], x[2]>> : x \in {y \in CmdArgs \X CmdArgs : y[1] # y[2]}}

OptText(text) == {None, Some(text)}

RootCmds ==
    {[DefaultCmd("app") EXCEPT !.display_name = d, !.about = a, !.long_about = l,
                               !.before_help = b, !.after_help = f]
        : d \in OptText("App"), a \in OptText("short about"),
          l \in OptText("long about"), b \in OptText("before"), f \in OptText("after")}

SubVariants ==
    {DefaultCmd("build"),
     [DefaultCmd("internal") EXCEPT !.about = Some("internal use")],
     [DefaultCmd("sync") EXCEPT !.long_flag = Some("sync"), !.short_flag = Some("S")],
     [DefaultCmd("old") EXCEPT !.before_help = Some("deprecated")]}

SubCmds == {[v EXCEPT !.hide = h] : v \in SubVariants, h \in BOOLEAN}

\* One command in detail: alone with its arguments, or with up to
\* MaxNodes - 1 subcommands directly under it.
LoneCommands ==
    {[parent |-> <<0>>, node |-> <<[r EXCEPT !.args = args]>>]
        : r \in RootCmds, args \in ArgLists}

ParentsOf(n) ==
    {[parent |-> [i \in 1..n |-> IF i = 1 THEN 0 ELSE 1],
      node   |-> [i \in 1..n |->
                    IF i = 1
                    THEN [DefaultCmd("app") EXCEPT !.about = a, !.long_about = l]
                    ELSE subs[i]]]
        : a \in OptText("short about"), l \in OptText("long about"),
          subs \in [2..n -> SubCmds]}

DetailedCommands == LoneCommands \cup UNION {ParentsOf(n) : n \in 2..MaxNodes}

\* the details of an argument that takes values
ValueDetails ==
    {[d |-> <<>>, p |-> <<>>],
     [d |-> <<"1">>, p |-> <<>>],
     [d |-> <<"1", "2">>, p |-> <<>>],
     [d |-> <<>>, p |-> <<[name |-> "fast", help |-> None, hide |-> FALSE],
                          [name |-> "slow", help |-> None, hide |-> FALSE]>>],
     [d |-> <<>>, p |-> <<[name |-> "fast", help |-> Some("quick"), hide |-> FALSE],
                          [name |-> "slow", help |-> None, hide |-> FALSE]>>],
     [d |-> <<"fast">>, p |-> <<[name |-> "fast", help |-> None, hide |-> FALSE],
                                [name |-> "debug", help |-> None, hide |-> TRUE]>>]}

\* Arguments as clap hands them over: one that takes no value declares no
\* value names, defaults or possible values; a positional one takes values;
\* declared value names are never an empty list.
Args ==
    {[DefaultArg("file") EXCEPT !.short = s, !.long = l, !.takes_values = FALSE,
                                !.help = h, !.hide = hd, !.required = r, !.multiple = m]
        : s \in OptText("f"), l \in OptText("file"), h \in OptText("the file"),
          hd \in BOOLEAN, r \in BOOLEAN, m \in BOOLEAN}
    \cup
    {[DefaultArg("file") EXCEPT !.short = s, !.long = l, !.value_names = vn,
                                !.help = h, !.hide = hd, !.required = r, !.multiple = m,
                                !.default_values = vd.d, !.possible_values = vd.p]
        : s \in OptText("f"), l \in OptText("file"),
          vn \in {None, Some(<<"PATH">>), Some(<<"KEY", "VALUE">>)},
          h \in OptText("the file"), hd \in BOOLEAN, r \in BOOLEAN, m \in BOOLEAN,
          vd \in ValueDetails}

\* One command with one argument, the argument varying.
SingleArgCommands ==
    {[parent |-> <<0>>, node |-> <<[DefaultCmd("app") EXCEPT !.args = <<a>>]>>]
        : a \in {x \in Args : is_positional(x) => x.takes_values}}

Root == 1

\* -------------------------------------------------------------- operations
Call(op, ret, out, panicked) ==
    [op |-> op, ret |-> ret, out |-> out, panicked |-> panicked]

\* a faulty buffer: one that still holds what earlier calls printed
NewBuffer_stale == stdout

\* String::with_capacity(100): the empty buffer each call starts from
NewBuffer == ""

\* help_markdown_command(&command), and help_markdown::<C>() with
\* C::command() = command: the buffer write_help_markdown filled is returned.
HelpMarkdownCommand ==
    /\ Len(calls) < MaxCalls
    /\ LET r == write_help_markdown(NewBuffer, Root)
       IN  /\ calls' = Append(calls, Call("help_markdown_command", Some(r.buffer),
                                          r.out, FALSE))
           /\ stdout' = stdout \o r.out
    /\ UNCHANGED command

\* print_help_markdown::<C>() with C::command() = command: the buffer is
\* printed after what write_help_markdown itself printed.
PrintHelpMarkdown ==
    /\ Len(calls) < MaxCalls
    /\ LET r == write_help_markdown(NewBuffer, Root)
           out == r.out \o r.buffer \o "\n"
       IN  /\ calls' = Append(calls, Call("print_help_markdown", None, out, FALSE))
           /\ stdout' = stdout \o out
    /\ UNCHANGED command

\* build_command_markdown(&mut buffer, Vec::new(), &command, 0): the call
\* write_help_markdown has commented out (line 92).  The function is private
\* and nothing in the crate calls it; it is run here on its own so that what
\* it would write can be compared with what the live path writes.
BuildCommandMarkdown ==
    /\ Len(calls) < MaxCalls
    /\ LET r == build_command_markdown("", <<>>, Root, 0)
       IN  calls' = Append(calls, Call("build_command_markdown", Some(r.buffer),
                                       "", r.panicked))
    /\ UNCHANGED <<command, stdout>>

Next ==
    \/ HelpMarkdownCommand
    \/ PrintHelpMarkdown
    \/ BuildCommandMarkdown

Init == command \in Trees /\ calls = <<>> /\ stdout = ""

InitCmd == command \in DetailedCommands /\ calls = <<>> /\ stdout = ""

InitArg == command \in SingleArgCommands /\ calls = <<>> /\ stdout = ""

Spec == Init /\ [][Next]_vars

SpecCmd == InitCmd /\ [][Next]_vars

SpecArg == InitArg /\ [][Next]_vars

\* Trees of up to MaxOrderNodes commands with a name of its own for each
\* command (declaration order is not alphabetical): the shape and the hidden
\* flags vary.
OrderNames == <<"root", "B", "A", "D", "C", "E">>

OrderTreesOf(n) ==
    {[parent |-> p,
      node   |-> [i \in 1..n |-> [DefaultCmd(OrderNames[i]) EXCEPT !.hide = hide[i]]]]
        : p \in Parents(n), hide \in [1..n -> BOOLEAN]}

OrderTrees == UNION {OrderTreesOf(n) : n \in 1..MaxOrderNodes}

InitOrder == command \in OrderTrees /\ calls = <<>> /\ stdout = ""

SpecOrder == InitOrder /\ [][Next]_vars

\* every input above: trees, detailed commands, one-argument commands
InitAll ==
    /\ command \in Trees \cup DetailedCommands \cup SingleArgCommands
    /\ calls = <<>>
    /\ stdout = ""

SpecAll == InitAll /\ [][Next]_vars

\* ================================================================ properties
\* Reading the output back: lines, table-of-contents entries, headings.
RECURSIVE IndexOf(_, _, _)
IndexOf(s, ch, i) ==
    IF i > Len(s) THEN 0
    ELSE IF SubSeq(s, i, i) = ch THEN i
    ELSE IndexOf(s, ch, i + 1)

RECURSIVE Lines(_)
Lines(s) ==
    IF s = "" THEN <<>>
    ELSE LET i == IndexOf(s, "\n", 1)
         IN  IF i = 0 THEN <<s>>
             ELSE <<SubSeq(s, 1, i - 1)>> \o Lines(SubSeq(s, i + 1, Len(s)))

StartsWith(s, prefix) == Len(s) >= Len(prefix) /\ SubSeq(s, 1, Len(prefix)) = prefix

Contains(s, sub) ==
    \E i \in 1..(Len(s) - Len(sub) + 1) : SubSeq(s, i, i + Len(sub) - 1) = sub

IsTocLine(line) == StartsWith(line, "* [")

IsHeading(line) == StartsWith(line, "## ")

\* the entry text and the anchor of a table-of-contents line
EntryText(line) == SubSeq(line, 5, IndexOf(line, Arrow, 1) - 2)

EntryAnchor(line) == SubSeq(line, IndexOf(line, Arrow, 1) + 4, Len(line) - 1)

\* the command path a section heading names
HeadingText(line) == SubSeq(line, 5, Len(line) - 1)

\* the document a call produced: the returned buffer, or what was printed
IsLive(call) == call.op \in {"help_markdown_command", "print_help_markdown"}

Document(call) == IF IsSome(call.ret) THEN Unwrap(call.ret) ELSE call.out

TocLines(call) == SelectSeq(Lines(Document(call)), IsTocLine)

Headings(call) == SelectSeq(Lines(Document(call)), IsHeading)

\* The commands of the tree, by the parent relation alone.
Commands == 1..Len(command.node)

Parent(n) == command.parent[n]

RECURSIVE HiddenOrUnderHidden(_)
HiddenOrUnderHidden(n) ==
    command.node[n].hide \/ (Parent(n) # 0 /\ HiddenOrUnderHidden(Parent(n)))

Documented == {n \in Commands : ~HiddenOrUnderHidden(n)}

\* the chain of a command: its parent's chain followed by its own name
RECURSIVE SpaceChain(_)
SpaceChain(n) ==
    IF Parent(n) = 0 THEN command.node[n].name
    ELSE SpaceChain(Parent(n)) \o " " \o command.node[n].name

RECURSIVE HyphenChain(_)
HyphenChain(n) ==
    IF Parent(n) = 0 THEN command.node[n].name
    ELSE HyphenChain(Parent(n)) \o "-" \o command.node[n].name

Bijections(S, T) ==
    {f \in [S -> T] : (\A t \in T : \E x \in S : f[x] = t)
                      /\ (\A x, y \in S : f[x] = f[y] => x = y)}

\* C1: the table of contents written by build_table_of_contents_markdown
\* has as many entries as there are commands that are neither hidden nor
\* under a hidden command, every such command has its entry, and a command
\* that is hidden or under a hidden command has none (an entry naming its
\* path belongs to a documented command of the same path).
C1_TocEntries ==
    \A k \in 1..Len(calls) :
        IsLive(calls[k]) =>
            LET toc == TocLines(calls[k])
                texts == {EntryText(toc[i]) : i \in 1..Len(toc)}
            IN  /\ Len(toc) = Cardinality(Documented)
                /\ \A n \in Documented : SpaceChain(n) \in texts
                /\ \A n \in Commands \ Documented :
                       SpaceChain(n) \in texts
                           => \E d \in Documented : SpaceChain(d) = SpaceChain(n)
                /\ \A t \in texts :
                       Cardinality({i \in 1..Len(toc) : EntryText(toc[i]) = t})
                           = Cardinality({d \in Documented : SpaceChain(d) = t})

\* C1 witness: a table of contents was written for the tree
\* root -> A (hidden) -> B (not hidden); its only entry is the root's.
C1_Witness ==
    /\ Len(calls) >= 1
    /\ calls[1].op = "help_markdown_command"
    /\ command.parent = <<0, 1, 2>>
    /\ ~command.node[1].hide /\ command.node[2].hide /\ ~command.node[3].hide
    /\ command.node[1].name = "root" /\ command.node[2].name = "A"
    /\ command.node[3].name = "B"
    /\ Len(TocLines(calls[1])) = 1
    /\ EntryText(TocLines(calls[1])[1]) = "root"

\* C2: every documented command's entry carries its parent's chain followed
\* by its own name, joined by spaces as the entry text and by hyphens as the
\* anchor; the section headings of build_command_markdown carry the same
\* space-joined chain.
C2_AncestorChain ==
    \A k \in 1..Len(calls) :
        /\ IsLive(calls[k]) =>
               LET toc == TocLines(calls[k])
               IN  \E f \in Bijections(1..Len(toc), Documented) :
                       \A i \in 1..Len(toc) :
                           /\ EntryText(toc[i]) = SpaceChain(f[i])
                           /\ EntryAnchor(toc[i]) = HyphenChain(f[i])
        /\ calls[k].op = "build_command_markdown" =>
               LET hs == Headings(calls[k])
               IN  \E f \in Bijections(1..Len(hs), Documented) :
                       \A i \in 1..Len(hs) : HeadingText(hs[i]) = SpaceChain(f[i])

\* C2 witness: for the tree root -> A -> B the entry of B reads "root A B"
\* with the anchor "root-A-B".
C2_Witness ==
    /\ Len(calls) >= 1
    /\ calls[1].op = "help_markdown_command"
    /\ Len(command.node) = 3
    /\ command.parent = <<0, 1, 2>>
    /\ command.node[1].name = "root" /\ command.node[2].name = "A"
    /\ command.node[3].name = "B"
    /\ Documented = {1, 2, 3}
    /\ \E i \in 1..Len(TocLines(calls[1])) :
           /\ EntryText(TocLines(calls[1])[i]) = "root A B"
           /\ EntryAnchor(TocLines(calls[1])[i]) = "root-A-B"

\* ------------------------------------------------ reading the sections back
\* everything a call wrote: the buffer it returned and what it printed
AllOutput(call) == (IF IsSome(call.ret) THEN Unwrap(call.ret) ELSE "") \o call.out

\* the index of the first line equal to header, or 0
HeaderIndex(lines, header) ==
    IF \E i \in 1..Len(lines) : lines[i] = header
    THEN CHOOSE i \in 1..Len(lines) :
             lines[i] = header /\ \A j \in 1..(i - 1) : lines[j] # header
    ELSE 0

\* the rows println! wrote under a header (HlpCmd::print): up to the first
\* empty line
PrintedBlock(call, header) ==
    LET lines == Lines(call.out)
        h == HeaderIndex(lines, header)
    IN  IF h = 0 THEN {}
        ELSE {lines[i] : i \in {k \in (h + 1)..Len(lines) :
                                  \A j \in (h + 1)..k : lines[j] # ""}}

\* the list items under a Markdown header (build_command_markdown): up to
\* the next header
MarkdownBlock(call, header) ==
    LET lines == Lines(Document(call))
        h == HeaderIndex(lines, header)
    IN  IF h = 0 THEN {}
        ELSE {lines[i] : i \in {k \in (h + 1)..Len(lines) :
                                  /\ StartsWith(lines[k], "* ")
                                  /\ \A j \in (h + 1)..k : ~StartsWith(lines[j], "#")}}

\* the three lists of a command's section, in either rendering
SubcommandList(call) ==
    IF IsLive(call) THEN PrintedBlock(call, "Commands")
    ELSE MarkdownBlock(call, "###### **Subcommands:**")

ArgumentList(call) ==
    IF IsLive(call) THEN PrintedBlock(call, "Arguments")
    ELSE MarkdownBlock(call, "###### **Arguments:**")

OptionList(call) ==
    IF IsLive(call) THEN PrintedBlock(call, "Options")
    ELSE MarkdownBlock(call, "###### **Options:**")

\* a row of a subcommand list that is the row of a command of that name
IsRowOf(call, line, name) ==
    IF IsLive(call) THEN StartsWith(line, "  " \o name \o ",")
    ELSE StartsWith(line, "* " \o BT \o name \o BT)

\* C3: one render pass writes a section for the root and for every
\* non-hidden descendant, each headed by its full chain, so that the command
\* paths of the sections are those of the table of contents.
C3_SectionsMatchToc ==
    \A k \in 1..Len(calls) :
        IsLive(calls[k]) =>
            LET toc == TocLines(calls[k])
                hs == SelectSeq(Lines(AllOutput(calls[k])), IsHeading)
            IN  {HeadingText(hs[i]) : i \in 1..Len(hs)}
                    = {EntryText(toc[i]) : i \in 1..Len(toc)}

\* C4: a hidden subcommand directly under the root has no entry in the table
\* of contents, no section, and no row in the subcommand summary written for
\* the root (a row or entry of a non-hidden sibling of the same name aside).
C4_HiddenSubcommandAbsent ==
    \A k \in 1..Len(calls) :
        \A h \in Commands :
            (/\ Parent(h) = Root
             /\ command.node[h].hide
             /\ ~\E v \in Commands : Parent(v) = Root /\ ~command.node[v].hide
                                     /\ command.node[v].name = command.node[h].name)
            => LET out == Lines(AllOutput(calls[k]))
               IN  /\ \A i \in 1..Len(out) :
                          /\ IsTocLine(out[i]) => EntryText(out[i]) # SpaceChain(h)
                          /\ IsHeading(out[i]) => HeadingText(out[i]) # SpaceChain(h)
                   /\ \A line \in SubcommandList(calls[k]) :
                          ~IsRowOf(calls[k], line, command.node[h].name)

\* C5: when a documented command defines before-help or after-help text,
\* help_markdown_command and print_help_markdown abort instead of completing.
C5_BeforeAfterHelpAborts ==
    \A k \in 1..Len(calls) :
        (/\ IsLive(calls[k])
         /\ \E n \in Documented : \/ IsSome(command.node[n].before_help)
                                  \/ IsSome(command.node[n].after_help))
        => calls[k].panicked

\* the argument of the one-argument inputs and the line it is shown on
TheArg == command.node[Root].args[1]

FlagLines(call) ==
    IF IsLive(call) THEN OptionList(call)
    ELSE {line \in {Lines(Document(call))[i] : i \in 1..Len(Lines(Document(call)))} :
              StartsWith(line, "* ")}

ShowsFlags(line, a) ==
    /\ IsSome(a.short) => Contains(line, "-" \o Unwrap(a.short))
    /\ IsSome(a.long) => Contains(line, "--" \o Unwrap(a.long))

\* C6: an argument that takes a value is shown with its placeholder in angle
\* brackets when it is required and in square brackets when it is optional.
C6_BracketStyle ==
    \A k \in 1..Len(calls) :
        (Len(command.node[Root].args) = 1 /\ TheArg.takes_values) =>
            /\ FlagLines(calls[k]) # {}
            /\ \A line \in FlagLines(calls[k]) :
                   IF TheArg.required
                   THEN Contains(line, "<") /\ Contains(line, ">") /\ ~Contains(line, "[")
                   ELSE Contains(line, "[") /\ Contains(line, "]") /\ ~Contains(line, "<")

\* C7: an argument that takes no value is shown with its flags and with no
\* value placeholder, not even an empty one.
C7_NoPlaceholderForFlags ==
    \A k \in 1..Len(calls) :
        (Len(command.node[Root].args) = 1 /\ ~TheArg.takes_values) =>
            /\ FlagLines(calls[k]) # {}
            /\ \A line \in FlagLines(calls[k]) :
                   /\ ShowsFlags(line, TheArg)
                   /\ ~Contains(line, "<") /\ ~Contains(line, ">")
                   /\ ~Contains(line, "[") /\ ~Contains(line, "]")

\* C8: an argument that accepts more than one occurrence is shown with a
\* literal "..." after its value placeholders.
C8_EllipsisForRepeatable ==
    \A k \in 1..Len(calls) :
        (Len(command.node[Root].args) = 1 /\ TheArg.multiple) =>
            /\ FlagLines(calls[k]) # {}
            /\ \A line \in FlagLines(calls[k]) : Contains(line, "...")

\* what identifies an argument on the line that shows it
ArgKey(a) == IF IsSome(a.long) THEN "--" \o Unwrap(a.long) ELSE "<" \o ValueName(a) \o ">"

Listed(block, a) == \E line \in block : Contains(line, ArgKey(a))

\* C9: a non-hidden positional argument is listed under Arguments only, a
\* non-hidden non-positional one under Options only, a hidden one nowhere.
C9_ArgumentPartition ==
    \A k \in 1..Len(calls) :
        ~calls[k].panicked =>
            \A i \in 1..Len(command.node[Root].args) :
                LET a == command.node[Root].args[i]
                IN  /\ Listed(ArgumentList(calls[k]), a) <=> (~a.hide /\ is_positional(a))
                    /\ Listed(OptionList(calls[k]), a) <=> (~a.hide /\ ~is_positional(a))

\* the description a command is to be shown with
BestAbout(n) ==
    IF IsSome(command.node[n].long_about) THEN Unwrap(command.node[n].long_about)
    ELSE IF IsSome(command.node[n].about) THEN Unwrap(command.node[n].about)
    ELSE ""

\* the lines build_cmd prints for the positional arguments, ahead of the
\* description
RECURSIVE DebugLineCount(_)
DebugLineCount(args) ==
    IF args = <<>> THEN 0
    ELSE (IF is_positional(Head(args)) THEN (IF IsSome(Head(args).help) THEN 5 ELSE 1)
          ELSE 0) + DebugLineCount(Tail(args))

\* the description line of the root's section
ShownDescription(call) ==
    IF IsLive(call)
    THEN Lines(call.out \o "\n")[DebugLineCount(command.node[Root].args) + 1]
    ELSE LET lines == Lines(Document(call))
         IN  IF Len(lines) >= 3 /\ ~StartsWith(lines[3], "**Usage:**") THEN lines[3]
             ELSE ""

\* C10: the description shown for a command is its long description if it
\* has one, otherwise its short description, otherwise empty; a missing
\* description aborts nothing.
C10_DescriptionFallback ==
    \A k \in 1..Len(calls) :
        /\ ShownDescription(calls[k]) = BestAbout(Root)
        /\ (IsNone(command.node[Root].about) /\ IsNone(command.node[Root].long_about)
            /\ \A n \in Commands : IsNone(command.node[n].before_help)
                                   /\ IsNone(command.node[n].after_help))
           => ~calls[k].panicked

\* the bytes of a render pass: what it printed, then the document (which
\* help_markdown_command returns and print_help_markdown prints with println!)
PassBytes(call) ==
    IF IsSome(call.ret) THEN call.out \o Unwrap(call.ret) \o "\n" ELSE call.out

RECURSIVE PathTo(_)
PathTo(n) == IF Parent(n) = 0 THEN <<n>> ELSE Append(PathTo(Parent(n)), n)

Before(a, b) ==
    LET pa == PathTo(a)
        pb == PathTo(b)
    IN  \/ Len(pa) < Len(pb) /\ SubSeq(pb, 1, Len(pa)) = pa
        \/ \E i \in 1..Len(pa) :
               /\ i <= Len(pb)
               /\ SubSeq(pa, 1, i - 1) = SubSeq(pb, 1, i - 1)
               /\ pa[i] < pb[i]

\* the command paths a call wrote, in the order it wrote them: the entries of
\* the table of contents, or the section headings of build_command_markdown
PathsWritten(call) ==
    IF IsLive(call)
    THEN LET toc == TocLines(call) IN [i \in 1..Len(toc) |-> EntryText(toc[i])]
    ELSE LET hs == Headings(call) IN [i \in 1..Len(hs) |-> HeadingText(hs[i])]

\* C12: the walkers write the documented commands in pre-order: a command
\* before all its descendants, the whole subtree of a child before the next
\* sibling, siblings in declaration order.
C12_PreOrder ==
    calls # <<>> =>
        LET written == PathsWritten(calls[Len(calls)])
        IN  /\ Len(written) = Cardinality(Documented)
            /\ \A a, b \in Documented :
                   Before(a, b) =>
                       \E i, j \in 1..Len(written) :
                           /\ i < j
                           /\ written[i] = SpaceChain(a)
                           /\ written[j] = SpaceChain(b)

\* C12 witness: for root with the children B and A (declared in that order)
\* and D under B, the table of contents lists root, B, D, A.
C12_Witness ==
    /\ Len(calls) >= 1
    /\ calls[Len(calls)].op = "help_markdown_command"
    /\ command.parent = <<0, 1, 1, 2>>
    /\ Documented = {1, 2, 3, 4}
    /\ PathsWritten(calls[Len(calls)]) = <<"root", "root B", "root B D", "root A">>

====
